---- MODULE Spec2Model ----
(***************************************************************************)
(* A model of lib/go/jsonframer: ToFrame, ToFrames, GetRootData and the    *)
(* column projection, with JSON text modelled as a sequence of lexical     *)
(* tokens, so that parsing, serialising and un-quoting are real            *)
(* conversions.                                                            *)
(***************************************************************************)
EXTENDS Naturals, Sequences, FiniteSets, TLC

(***************************************************************************)
(* JSON text: a sequence of tokens.  A token is a punctuation mark, a      *)
(* literal, a number, a quoted string, a run of white space, or a run of   *)
(* characters that is none of these ("junk").                              *)
(***************************************************************************)
Tok(k) == [t |-> k, n |-> 0, s |-> ""]

TNum(k) == [t |-> "num", n |-> k, s |-> ""]

TStr(c) == [t |-> "str", n |-> 0, s |-> c]

TJunk(c) == [t |-> "junk", n |-> 0, s |-> c]

WS == Tok("ws")

(***************************************************************************)
(* JSON values.  keys/items of an object are parallel sequences in the     *)
(* order of the text; a Go map is the same record with its keys unique and *)
(* in ascending order (see ToGo).                                          *)
(***************************************************************************)
JNull == [type |-> "null", n |-> 0, s |-> "", keys |-> <<>>, items |-> <<>>]

JBool(b) == [type |-> "bool", n |-> IF b THEN 1 ELSE 0, s |-> "", keys |-> <<>>, items |-> <<>>]

JNum(k) == [type |-> "num", n |-> k, s |-> "", keys |-> <<>>, items |-> <<>>]

JStr(c) == [type |-> "str", n |-> 0, s |-> c, keys |-> <<>>, items |-> <<>>]

JArr(xs) == [type |-> "arr", n |-> 0, s |-> "", keys |-> <<>>, items |-> xs]

JObj(ks, xs) == [type |-> "obj", n |-> 0, s |-> "", keys |-> ks, items |-> xs]

(***************************************************************************)
(* The names that occur as object keys, column names and string contents,  *)
(* in ascending byte order: encoding/json writes a map's keys in this      *)
(* order.                                                                  *)
(***************************************************************************)
Names == <<"0", "1", "2", "3", "4", "5", "a", "b", "d", "h", "m", "response", "t", "v", "x">>

Rank(s) == CHOOSE i \in 1..Len(Names) : Names[i] = s

\* The({e(x) : x \in {v}}) is LET x == v IN e(x), with v worked out once.
The(S) == CHOOSE v \in S : TRUE

RECURSIVE SkipWs(_, _)
SkipWs(toks, i) ==
  IF i <= Len(toks) /\ toks[i].t = "ws" THEN SkipWs(toks, i + 1) ELSE i

ParseFail == [ok |-> FALSE, v |-> JNull, next |-> 0]

ParseOk(v, next) == [ok |-> TRUE, v |-> v, next |-> next]

\* The recursive descent over the tokens: a value at i0, the elements of an
\* array from i on, the members of an object from i on.
RECURSIVE ParseValue(_, _), ParseElems(_, _, _), ParseMembers(_, _, _, _)
ParseValue(toks, i0) ==
  The({ IF i > Len(toks) THEN ParseFail
        ELSE CASE toks[i].t = "null" -> ParseOk(JNull, i + 1)
               [] toks[i].t = "true" -> ParseOk(JBool(TRUE), i + 1)
               [] toks[i].t = "false" -> ParseOk(JBool(FALSE), i + 1)
               [] toks[i].t = "num" -> ParseOk(JNum(toks[i].n), i + 1)
               [] toks[i].t = "str" -> ParseOk(JStr(toks[i].s), i + 1)
               [] toks[i].t = "[" ->
                    The({ IF j <= Len(toks) /\ toks[j].t = "]" THEN ParseOk(JArr(<<>>), j + 1)
                          ELSE ParseElems(toks, j, <<>>) : j \in {SkipWs(toks, i + 1)} })
               [] toks[i].t = "{" ->
                    The({ IF j <= Len(toks) /\ toks[j].t = "}" THEN ParseOk(JObj(<<>>, <<>>), j + 1)
                          ELSE ParseMembers(toks, j, <<>>, <<>>) : j \in {SkipWs(toks, i + 1)} })
               [] OTHER -> ParseFail
        : i \in {SkipWs(toks, i0)} })

ParseElems(toks, i, acc) ==
  The({ IF ~r.ok THEN ParseFail
        ELSE The({ IF j > Len(toks) THEN ParseFail
                   ELSE IF toks[j].t = "," THEN ParseElems(toks, j + 1, a)
                   ELSE IF toks[j].t = "]" THEN ParseOk(JArr(a), j + 1)
                   ELSE ParseFail
                   : j \in {SkipWs(toks, r.next)}, a \in {Append(acc, r.v)} })
        : r \in {ParseValue(toks, i)} })

ParseMembers(toks, i, ks, xs) ==
  The({ IF j > Len(toks) \/ toks[j].t # "str" THEN ParseFail
        ELSE The({ IF c > Len(toks) \/ toks[c].t # ":" THEN ParseFail
                   ELSE The({ IF ~r.ok THEN ParseFail
                              ELSE The({ IF e > Len(toks) THEN ParseFail
                                         ELSE IF toks[e].t = "," THEN ParseMembers(toks, e + 1, k2, x2)
                                         ELSE IF toks[e].t = "}" THEN ParseOk(JObj(k2, x2), e + 1)
                                         ELSE ParseFail
                                         : e \in {SkipWs(toks, r.next)},
                                           k2 \in {Append(ks, toks[j].s)},
                                           x2 \in {Append(xs, r.v)} })
                              : r \in {ParseValue(toks, c + 1)} })
                   : c \in {SkipWs(toks, j + 1)} })
        : j \in {SkipWs(toks, i)} })

\* A whole text: one value, white space around it allowed, nothing else.
ParseText(text) ==
  The({ The({ IF r.ok /\ SkipWs(toks, r.next) > Len(toks) THEN r ELSE ParseFail
              : r \in {ParseValue(toks, 1)} })
        : toks \in {text} })

\* The text of a value, keys in the order the value holds them.
RECURSIVE Render(_), RenderItems(_, _), RenderMembers(_, _, _)
Render(v0) ==
  The({ CASE v.type = "null" -> <<Tok("null")>>
          [] v.type = "bool" -> <<Tok(IF v.n = 1 THEN "true" ELSE "false")>>
          [] v.type = "num" -> <<TNum(v.n)>>
          [] v.type = "str" -> <<TStr(v.s)>>
          [] v.type = "arr" -> <<Tok("[")>> \o RenderItems(v.items, 1) \o <<Tok("]")>>
          [] v.type = "obj" -> <<Tok("{")>> \o RenderMembers(v.keys, v.items, 1) \o <<Tok("}")>>
        : v \in {v0} })

RenderItems(xs, i) ==
  IF i > Len(xs) THEN <<>>
  ELSE (IF i > 1 THEN <<Tok(",")>> ELSE <<>>) \o Render(xs[i]) \o RenderItems(xs, i + 1)

RenderMembers(ks, xs, i) ==
  IF i > Len(ks) THEN <<>>
  ELSE (IF i > 1 THEN <<Tok(",")>> ELSE <<>>) \o <<TStr(ks[i]), Tok(":")>>
       \o Render(xs[i]) \o RenderMembers(ks, xs, i + 1)

(***************************************************************************)
(* Go values.  json.Unmarshal into interface{} and gjson's Result.Value()  *)
(* turn an object into a map[string]interface{}: the order of the keys is  *)
(* lost and of two equal keys the later wins.  A map is held with its keys *)
(* in ascending order, which is also the order json.Marshal writes them.   *)
(***************************************************************************)
RECURSIVE SortNames(_)
SortNames(S0) ==
  The({ IF S = {} THEN <<>>
        ELSE The({ <<m>> \o SortNames(S \ {m})
                   : m \in {CHOOSE x \in S : \A y \in S : Rank(x) <= Rank(y)} })
        : S \in {S0} })

LastIndex(ks, k) == CHOOSE i \in 1..Len(ks) : ks[i] = k /\ \A j \in (i + 1)..Len(ks) : ks[j] # k

RECURSIVE ToGo(_)
ToGo(v0) ==
  The({ CASE v.type = "arr" -> JArr([i \in 1..Len(v.items) |-> ToGo(v.items[i])])
          [] v.type = "obj" ->
               The({ JObj(ks, [i \in 1..Len(ks) |-> ToGo(v.items[LastIndex(v.keys, ks[i])])])
                     : ks \in {SortNames({v.keys[i] : i \in 1..Len(v.keys)})} })
          [] OTHER -> v
        : v \in {v0} })

\* json.Marshal of a Go value.
Marshal(g) == Render(g)

\* json.Unmarshal(text, &out) with out an interface{}.
Unmarshal(text) ==
  The({ IF r.ok THEN [err |-> "", v |-> ToGo(r.v)]
        ELSE [err |-> "syntax error", v |-> JNull]
        : r \in {ParseText(text)} })

(***************************************************************************)
(* gjson.  A path is a selector string split at its dots; a segment names  *)
(* a key of an object or, when it is a number, an index of an array.       *)
(***************************************************************************)
Segments(sel) ==
  CASE sel = "d.a" -> <<"d", "a">>
    [] sel = "d.0" -> <<"d", "0">>
    [] OTHER -> <<sel>>

IsIndex(seg) == seg \in {"0", "1", "2"}

IndexOf(seg) == CASE seg = "0" -> 0 [] seg = "1" -> 1 [] seg = "2" -> 2 [] OTHER -> 0

NoResult == [exists |-> FALSE, v |-> JNull]

\* Of two equal keys of an object gjson finds the first.
FirstIndex(ks, k) == CHOOSE j \in 1..Len(ks) : ks[j] = k /\ \A h \in 1..(j - 1) : ks[h] # k

RECURSIVE GetPath(_, _, _)
GetPath(v0, segs, i) ==
  The({ IF i > Len(segs) THEN [exists |-> TRUE, v |-> v]
        ELSE IF v.type = "obj" THEN
          IF \E j \in 1..Len(v.keys) : v.keys[j] = segs[i]
          THEN GetPath(v.items[FirstIndex(v.keys, segs[i])], segs, i + 1)
          ELSE NoResult
        ELSE IF v.type = "arr" THEN
          IF IsIndex(segs[i]) /\ IndexOf(segs[i]) < Len(v.items)
          THEN GetPath(v.items[IndexOf(segs[i]) + 1], segs, i + 1)
          ELSE NoResult
        ELSE NoResult
        : v \in {v0} })

\* gjson.Parse(text): the value of a valid text; any other text is read
\* leniently, and only what the callers ask of it is modelled (see gjsonIsArray).
gjsonParse(text) ==
  The({ IF r.ok THEN [exists |-> TRUE, v |-> r.v] ELSE NoResult : r \in {ParseText(text)} })

\* gjson.Valid(text)
gjsonValid(text) == ParseText(text).ok

\* gjson.Get(text, path)
gjsonGet(text, sel) ==
  The({ IF r.ok /\ sel # "" THEN GetPath(r.v, Segments(sel), 1) ELSE NoResult
        : r \in {ParseText(text)} })

\* Result.IsArray() and Result.IsObject() look at the first character of the
\* raw text only.
FirstTok(text) ==
  The({ The({ IF i <= Len(toks) THEN toks[i].t ELSE "" : i \in {SkipWs(toks, 1)} })
        : toks \in {text} })

gjsonIsArray(text) == FirstTok(text) = "["

gjsonIsObject(text) == FirstTok(text) = "{"

\* Result.Array(): the elements of an array.
gjsonArray(text) ==
  The({ IF r.exists /\ r.v.type = "arr" THEN r.v.items ELSE <<>> : r \in {gjsonParse(text)} })

\* The characters of a string's content read as text again: a string that
\* holds a number or a literal reads as that number or literal, any other
\* content as characters that are no JSON.
Lex(c) ==
  IF c = "" THEN <<>>
  ELSE IF IsIndex(c) THEN <<TNum(IndexOf(c))>>
  ELSE IF c \in {"true", "false", "null"} THEN <<Tok(c)>>
  ELSE <<TJunk(c)>>

\* Result.String(): a string's content without its quotes, the empty string
\* for null, the raw text otherwise.
gjsonString(r) ==
  CASE r.v.type = "null" -> <<>>
    [] r.v.type = "str" -> Lex(r.v.s)
    [] OTHER -> Render(r.v)

\* Result.Value()
gjsonValue(r) == IF r.exists THEN ToGo(r.v) ELSE JNull

(***************************************************************************)
(* jsonata.  A program is a path (names joined by dots), or text that does *)
(* not compile.  A path step maps over arrays and flattens what it finds;  *)
(* no result at all is an evaluation error.                                *)
(***************************************************************************)
jsonataCompiles(sel) == sel # "("

RECURSIVE FlattenFrom(_, _)
FlattenFrom(seqs, i) == IF i > Len(seqs) THEN <<>> ELSE seqs[i] \o FlattenFrom(seqs, i + 1)

\* The concatenation of a sequence of sequences.
Flatten(seqs) == The({ FlattenFrom(s, 1) : s \in {seqs} })

RECURSIVE jsonataStep(_, _)
jsonataStep(g0, seg) ==
  The({ CASE g.type = "arr" -> Flatten([i \in 1..Len(g.items) |-> jsonataStep(g.items[i], seg)])
          [] g.type = "obj" ->
               IF \E j \in 1..Len(g.keys) : g.keys[j] = seg
               THEN The({ IF x.type = "arr" THEN x.items ELSE <<x>>
                          : x \in {g.items[FirstIndex(g.keys, seg)]} })
               ELSE <<>>
          [] OTHER -> <<>>
        : g \in {g0} })

RECURSIVE jsonataPath(_, _, _)
jsonataPath(found0, segs, i) ==
  The({ IF i > Len(segs) THEN found
        ELSE jsonataPath(Flatten([k \in 1..Len(found) |-> jsonataStep(found[k], segs[i])]),
                         segs, i + 1)
        : found \in {found0} })

\* expr.Eval(data)
jsonataEval(g, sel) ==
  The({ IF Len(found) = 0 THEN [err |-> "no results found", v |-> JNull]
        ELSE IF Len(found) = 1 THEN [err |-> "", v |-> found[1]]
        ELSE [err |-> "", v |-> JArr(found)]
        : found \in {jsonataPath(<<g>>, Segments(sel), 1)} })

(***************************************************************************)
(* jsonframer: the errors, validateJson, GetRootData and the projection.   *)
(***************************************************************************)
ErrInvalidRootSelector == "failed to compile JSONata expression"

ErrEvaluatingJSONata == "error evaluating JSONata expression"

ErrInvalidJSONContent == "invalid/empty JSON"

ErrEmptyJson == "empty json received"

ErrInvalidJson == "invalid json response received"

ErrMultiFrameSQLite3 == "multi frame support not implemented for sqlite3 parser"

ErrUnmarshal == "error while un-marshaling response"

\* strings.TrimSpace
RECURSIVE TrimLeft(_), TrimRight(_)
TrimLeft(text) ==
  IF Len(text) > 0 /\ text[1].t = "ws" THEN TrimLeft(Tail(text)) ELSE text

TrimRight(text) ==
  IF Len(text) > 0 /\ text[Len(text)].t = "ws"
  THEN TrimRight(SubSeq(text, 1, Len(text) - 1)) ELSE text

TrimSpace(text) == TrimRight(TrimLeft(text))

\* validateJson without the TrimSpace: white space is taken for a document.
validateJsonNoTrim(jsonString) ==
  IF jsonString = <<>> THEN ErrEmptyJson
  ELSE IF ~gjsonValid(jsonString) THEN ErrInvalidJson
  ELSE ""

validateJson(jsonString) ==
  IF TrimSpace(jsonString) = <<>> THEN ErrEmptyJson
  ELSE IF ~gjsonValid(jsonString) THEN ErrInvalidJson
  ELSE ""

\* jsonata.MustCompile(rootSelector): the compiled program, or a panic when the
\* selector does not compile; it never returns nil.
MustCompile(rootSelector) ==
  IF jsonataCompiles(rootSelector) THEN [panic |-> FALSE, isNil |-> FALSE]
  ELSE [panic |-> TRUE, isNil |-> FALSE]

RootResult(out, err, panic) == [out |-> out, err |-> err, panic |-> panic]

\* The second half of GetRootData: the selector as a jsonata program.
EvalRootSelector(jsonString, rootSelector) ==
  The({ IF expr.panic THEN RootResult(<<>>, "", TRUE)
        ELSE IF expr.isNil THEN RootResult(<<>>, ErrInvalidRootSelector, FALSE)
        ELSE The({ IF data.err # "" THEN RootResult(<<>>, ErrInvalidJSONContent, FALSE)
                   ELSE The({ IF res.err # "" THEN RootResult(<<>>, ErrEvaluatingJSONata, FALSE)
                              ELSE RootResult(Marshal(res.v), "", FALSE)
                              : res \in {jsonataEval(data.v, rootSelector)} })
                   : data \in {Unmarshal(jsonString)} })
        : expr \in {MustCompile(rootSelector)} })

GetRootData(jsonString, rootSelector) ==
  IF rootSelector # "" THEN
    The({ IF r.exists THEN RootResult(gjsonString(r), "", FALSE)
          ELSE EvalRootSelector(jsonString, rootSelector)
          : r \in {gjsonGet(jsonString, rootSelector)} })
  ELSE RootResult(jsonString, "", FALSE)

convertFieldValueType(input, col) == input

\* oi[name] = value, on a map held with its keys ascending.
\* MapPut that keeps the value a name already has.
MapPutKeepFirst(m0, name, value) ==
  The({ IF \E j \in 1..Len(m.keys) : m.keys[j] = name
        THEN m
        ELSE The({ JObj(SubSeq(m.keys, 1, k) \o <<name>> \o SubSeq(m.keys, k + 1, Len(m.keys)),
                        SubSeq(m.items, 1, k) \o <<value>> \o SubSeq(m.items, k + 1, Len(m.items)))
                   : k \in {Cardinality({j \in 1..Len(m.keys) : Rank(m.keys[j]) < Rank(name)})} })
        : m \in {m0} })

MapPut(m0, name, value) ==
  The({ IF \E j \in 1..Len(m.keys) : m.keys[j] = name
        THEN JObj(m.keys, [j \in 1..Len(m.keys) |-> IF m.keys[j] = name THEN value ELSE m.items[j]])
        ELSE The({ JObj(SubSeq(m.keys, 1, k) \o <<name>> \o SubSeq(m.keys, k + 1, Len(m.keys)),
                        SubSeq(m.items, 1, k) \o <<value>> \o SubSeq(m.items, k + 1, Len(m.items)))
                   : k \in {Cardinality({j \in 1..Len(m.keys) : Rank(m.keys[j]) < Rank(name)})} })
        : m \in {m0} })

ColumnName(col) == IF col.Alias = "" THEN col.Selector ELSE col.Alias

\* The loop over the columns that fills one output row from the row's raw text.
RECURSIVE ProjectRow(_, _, _, _)
ProjectRow(raw, columns, i, oi) ==
  IF i > Len(columns) THEN oi
  ELSE The({ ProjectRow(raw, columns, i + 1, next)
             : next \in {MapPut(oi, ColumnName(columns[i]),
                                convertFieldValueType(
                                  gjsonValue(gjsonGet(raw, columns[i].Selector)), columns[i]))} })

EmptyMap == JObj(<<>>, <<>>)

\* The rows the projection collects: one per element of an array, one for
\* an object, none for anything else.
ProjectRows(responseString, columns) ==
  IF gjsonIsArray(responseString) THEN
    The({ [i \in 1..Len(items) |-> The({ ProjectRow(raw, columns, 1, EmptyMap)
                                         : raw \in {Render(items[i])} })]
          : items \in {gjsonArray(responseString)} })
  ELSE IF gjsonIsObject(responseString)
  THEN <<ProjectRow(responseString, columns, 1, EmptyMap)>>
  ELSE <<>>

getColumnValuesFromResponseString(responseString, columns) ==
  IF Len(columns) > 0
  THEN [out |-> Marshal(JArr(ProjectRows(responseString, columns))), err |-> ""]
  ELSE [out |-> responseString, err |-> ""]

(***************************************************************************)
(* Frames.  A frame is a name and an ordered list of fields; a field is a  *)
(* name, a type, the labels of its series and one value per row.  The      *)
(* frame assembler (gframer.ToDataFrame) is not part of the sources at     *)
(* hand and follows the specification's description of it.                 *)
(***************************************************************************)
Frame(name, fields) == [isNil |-> FALSE, name |-> name, fields |-> fields]

NilFrame == [isNil |-> TRUE, name |-> "", fields |-> <<>>]

Field(name, type, labels, values) ==
  [name |-> name, type |-> type, labels |-> labels, values |-> values]

IndexNames == <<"0", "1", "2", "3", "4", "5">>

\* The column names of one row: the keys of an object, the indices of an
\* array; a scalar is a row of one column, named after the frame.
RowKeys(row, frameName) ==
  CASE row.type = "obj" -> row.keys
    [] row.type = "arr" -> SubSeq(IndexNames, 1, Len(row.items))
    [] OTHER -> <<frameName>>

RowCell(row, frameName, name) ==
  CASE row.type = "obj" ->
         IF \E j \in 1..Len(row.keys) : row.keys[j] = name
         THEN row.items[CHOOSE j \in 1..Len(row.keys) : row.keys[j] = name]
         ELSE JNull
    [] row.type = "arr" ->
         IF \E j \in 1..Len(row.items) : IndexNames[j] = name
         THEN row.items[CHOOSE j \in 1..Len(row.items) : IndexNames[j] = name]
         ELSE JNull
    [] OTHER -> IF name = frameName THEN row ELSE JNull

\* The distinct members of a sequence, in the order they are first seen.
RECURSIVE FirstSeenFrom(_, _, _)
FirstSeenFrom(xs, i, acc) ==
  IF i > Len(xs) THEN acc
  ELSE The({ FirstSeenFrom(xs, i + 1, next)
             : next \in {IF \E j \in 1..Len(acc) : acc[j] = xs[i] THEN acc
                         ELSE Append(acc, xs[i])} })

FirstSeen(xs0) == The({ FirstSeenFrom(xs, 1, <<>>) : xs \in {xs0} })

\* The type a column declares, "" when it declares none; an override wins.
RECURSIVE DeclaredIn(_, _, _)
DeclaredIn(cols, name, i) ==
  IF i > Len(cols) THEN ""
  ELSE IF ColumnName(cols[i]) = name /\ cols[i].Type # "" THEN cols[i].Type
  ELSE DeclaredIn(cols, name, i + 1)

DeclaredType(fopts, name) ==
  The({ IF o # "" THEN o ELSE DeclaredIn(fopts.Columns, name, 1)
        : o \in {DeclaredIn(fopts.OverrideColumns, name, 1)} })

\* All-numeric is a number column, all-boolean a boolean column, anything
\* else a string column; a column of nulls only has no type of its own.
InferType(values) ==
  The({ IF seen = {} THEN "unknown"
        ELSE IF seen = {"num"} THEN "number"
        ELSE IF seen = {"bool"} THEN "boolean"
        ELSE "string"
        : seen \in {{values[i].type : i \in 1..Len(values)} \ {"null"}} })

FieldType(declared, values) ==
  CASE declared = "" -> InferType(values)
    [] declared \in {"timestamp", "timestamp_epoch", "timestamp_epoch_s"} -> "time"
    [] OTHER -> declared

\* A cell under a declared type: a time column keeps its numbers (seconds
\* since the epoch) and nulls everything else.
Coerce(declared, cell) ==
  IF declared # "" /\ FieldType(declared, <<>>) = "time"
  THEN (IF cell.type = "num" THEN cell ELSE JNull)
  ELSE cell

\* The column names of a frame: the declared ones, or the keys of the rows
\* in the order they are first seen.
FrameColumns(rows, fopts) ==
  IF Len(fopts.Columns) > 0
  THEN FirstSeen([i \in 1..Len(fopts.Columns) |-> ColumnName(fopts.Columns[i])])
  ELSE FirstSeen(Flatten([i \in 1..Len(rows) |-> RowKeys(rows[i], fopts.FrameName)]))

\* One field of a frame, or the mark of a cell that cannot be typed: a
\* nested value under a declared type.
FrameField(rows, fopts, name) ==
  The({ IF d # "" /\ \E i \in 1..Len(cells) : cells[i].type \in {"arr", "obj"}
        THEN Field(name, "error", <<>>, <<>>)
        ELSE Field(name, FieldType(d, cells), <<>>, [i \in 1..Len(cells) |-> Coerce(d, cells[i])])
        : d \in {DeclaredType(fopts, name)},
          cells \in {[i \in 1..Len(rows) |-> RowCell(rows[i], fopts.FrameName, name)]} })

ToDataFrame(out, fopts) ==
  The({ The({ IF \E c \in 1..Len(fields) : fields[c].type = "error"
              THEN [frame |-> NilFrame, err |-> "frame build error"]
              ELSE [frame |-> Frame(fopts.FrameName, fields), err |-> ""]
              : fields \in {The({ [c \in 1..Len(cols) |-> FrameField(rows, fopts, cols[c])]
                                  : cols \in {FrameColumns(rows, fopts)} })} })
        : rows \in {IF out.type = "arr" THEN out.items ELSE <<out>>} })

getFrameFromResponseString(responseString, options) ==
  The({ IF out.err # "" THEN [frame |-> NilFrame, err |-> ErrUnmarshal]
        ELSE ToDataFrame(out.v, [FrameName |-> options.FrameName,
                                 Columns |-> options.Columns,
                                 OverrideColumns |-> options.OverrideColumns])
        : out \in {Unmarshal(responseString)} })

(***************************************************************************)
(* The SDK's time series schema and its long to wide conversion.  A frame  *)
(* is long when it has a time field, a number field and a string field,    *)
(* wide when it has a time field and number fields only.                   *)
(***************************************************************************)
HasField(frame, type) == \E i \in 1..Len(frame.fields) : frame.fields[i].type = type

TimeSeriesSchemaType(frame) ==
  IF HasField(frame, "time") /\ HasField(frame, "number")
  THEN (IF HasField(frame, "string") THEN "long" ELSE "wide")
  ELSE "not"

FieldsOf(frame, type) ==
  SelectSeq(frame.fields, LAMBDA f : f.type = type)

RowLen(frame) == IF Len(frame.fields) = 0 THEN 0 ELSE Len(frame.fields[1].values)

RECURSIVE SortNums(_)
SortNums(S0) ==
  The({ IF S = {} THEN <<>>
        ELSE The({ <<m>> \o SortNums(S \ {m}) : m \in {CHOOSE x \in S : \A y \in S : x <= y} })
        : S \in {S0} })

\* The wide frame of a long frame whose times are all there and ascending.
Widen(name, time, facs, vals, n) ==
  The({ Frame(name,
              <<Field(time.name, "time", <<>>, [k \in 1..Len(times) |-> JNum(times[k])])>>
              \o Flatten([v \in 1..Len(vals) |->
                   [l \in 1..Len(series) |->
                      Field(vals[v].name, "number", series[l],
                            [k \in 1..Len(times) |->
                               IF \E r \in 1..n : time.values[r].n = times[k] /\ labels[r] = series[l]
                               THEN vals[v].values[CHOOSE r \in 1..n :
                                      time.values[r].n = times[k] /\ labels[r] = series[l]]
                               ELSE JNull])]]))
        : times \in {SortNums({time.values[r].n : r \in 1..n})},
          labels \in {[r \in 1..n |-> [k \in 1..Len(facs) |-> facs[k].values[r]]]},
          series \in {FirstSeen([r \in 1..n |-> [k \in 1..Len(facs) |-> facs[k].values[r]]])} })

\* data.LongToWide(frame, nil): one row per time, one number field per
\* value field and combination of labels.  It refuses a frame that is not
\* long, has no rows, has a null time or has times that are not ascending.
LongToWide(frame) ==
  IF TimeSeriesSchemaType(frame) # "long"
  THEN [frame |-> NilFrame, err |-> "can not convert to wide series"]
  ELSE The({ IF n = 0 \/ (\E r \in 1..n : time.values[r].type # "num")
                \/ (\E r \in 1..(n - 1) : time.values[r + 1].n < time.values[r].n)
             THEN [frame |-> NilFrame, err |-> "can not convert to wide series"]
             ELSE [frame |-> Widen(frame.name, time, FieldsOf(frame, "string"),
                                   FieldsOf(frame, "number"), n),
                   err |-> ""]
             : time \in {FieldsOf(frame, "time")[1]}, n \in {RowLen(frame)} })

(***************************************************************************)
(* The inputs: documents, selectors and options.                           *)
(***************************************************************************)
MaxRows == 2

MaxSets == 2

\* All sequences over S of length 0..n.
RECURSIVE SeqsUpTo(_, _)
SeqsUpTo(S, n) ==
  IF n = 0 THEN {<<>>}
  ELSE LET shorter == SeqsUpTo(S, n - 1)
       IN shorter \cup {Append(q, x) : q \in {r \in shorter : Len(r) = n - 1}, x \in S}

RowA == JObj(<<"b", "a">>, <<JNum(1), JStr("foo")>>)

RowB == JObj(<<"a">>, <<JNum(2)>>)

\* One row of a long time series: a time, a label and a value.
LongRow(t, h) == JObj(<<"t", "h", "v">>, <<JNum(t), JStr(h), JNum(t)>>)

Elements == {JNum(1), JStr("foo"), RowA, LongRow(1, "x"), LongRow(2, "foo"), JArr(<<RowB>>)}

RowSets == {JArr(q) : q \in SeqsUpTo(Elements, MaxRows)}

InnerSets == {JArr(<<>>), JArr(<<RowB>>), JArr(<<LongRow(1, "x")>>),
              JArr(<<LongRow(2, "foo"), LongRow(1, "x")>>)}

SetsOfSets == {JArr(q) : q \in SeqsUpTo(InnerSets, MaxSets)}

Wrapped == {JObj(<<"m", "d">>, <<JNull, x>>) :
              x \in {JNull, JStr("foo"), JStr("1"), JNum(2), RowA, JArr(<<RowA, RowB>>),
                     JArr(<<JArr(<<RowB>>), JArr(<<RowA>>)>>)}}

Documents ==
  RowSets \cup SetsOfSets \cup Wrapped
  \cup {JNum(1), JStr("foo"), JNull, JBool(TRUE), JObj(<<>>, <<>>), RowA, RowB, LongRow(1, "x")}

\* The texts handed to the entry points: no text, white space, text that is
\* no JSON, and the documents (one of them with white space around it).
Texts ==
  {<<>>, <<WS>>, <<Tok("{")>>, <<WS, Tok("["), TNum(1), Tok(","), Tok("]")>>, <<TJunk("foo")>>}
  \cup {Render(d) : d \in Documents}
  \cup {<<WS>> \o Render(RowA) \o <<WS>>}

Col(selector, alias, type) ==
  [Selector |-> selector, Alias |-> alias, Type |-> type, TimeFormat |-> ""]

ColumnLists ==
  { <<>>,
    <<Col("b", "x", ""), Col("a", "", "")>>,
    <<Col("a", "x", ""), Col("b", "x", "")>>,
    <<Col("t", "", "timestamp_epoch_s"), Col("h", "", ""), Col("v", "", "")>>,
    <<Col("0", "", "")>> }

OverrideLists == {<<>>, <<Col("t", "", "timestamp_epoch_s")>>}

RootSelectors == {"", "d", "a", "("}

FramerTypeGJSON == "gjson"

FramerTypeSQLite3 == "sqlite3"

FrameFormatTable == "table"

FrameFormatTimeSeries == "timeseries"

FramerOptions ==
  [FramerType : {FramerTypeGJSON, FramerTypeSQLite3},
   SQLite3Query : {""},
   FrameName : {"response"},
   RootSelector : RootSelectors,
   Columns : ColumnLists,
   OverrideColumns : OverrideLists,
   FrameFormat : {FrameFormatTable, FrameFormatTimeSeries}]

\* What QueryJSONUsingSQLite3 may answer: an error, or the text of its rows.
SQLite3Answers ==
  {[out |-> <<>>, err |-> "sqlite3 error"],
   [out |-> Render(JArr(<<>>)), err |-> ""],
   [out |-> Render(JArr(<<RowB>>)), err |-> ""]}

(***************************************************************************)
(* The calls.  One call is in progress at a time; pc is its position:      *)
(* "idle" (no call), "validate", "sqlite3", "root", "project", "build",    *)
(* "loop" (ToFrames, one inner array per step), "done" (returned) and      *)
(* "panicked".                                                             *)
(***************************************************************************)
VARIABLES
  pc,          \* the position of the call in progress
  fn,          \* the entry point called: "ToFrame", "ToFrames", "GetRootData"
  jsonString,  \* its text argument
  options,     \* its FramerOptions
  sqlite3,     \* what QueryJSONUsingSQLite3 answers in this call
  rootString,  \* the text GetRootData returned
  outString,   \* the text the projection returned
  idx,         \* ToFrames: the inner array the loop is at
  frames,      \* ToFrames: the frames returned (nil is the empty sequence)
  frame,       \* ToFrame: the frame returned
  err,         \* the error returned, "" for nil
  ran,         \* the stages this call has run, in order
  last         \* what the caller keeps of the call before, to call again

vars == <<pc, fn, jsonString, options, sqlite3, rootString, outString, idx, frames, frame, err, ran, last>>

NoAnswer == [out |-> <<>>, err |-> ""]

NoOptions ==
  [FramerType |-> "", SQLite3Query |-> "", FrameName |-> "", RootSelector |-> "",
   Columns |-> <<>>, OverrideColumns |-> <<>>, FrameFormat |-> ""]

NoCall ==
  [called |-> FALSE, jsonString |-> <<>>, options |-> NoOptions, frame |-> NilFrame, err |-> ""]

Init ==
  /\ pc = "idle"
  /\ fn = ""
  /\ jsonString = <<>>
  /\ options = NoOptions
  /\ sqlite3 = NoAnswer
  /\ rootString = <<>>
  /\ outString = <<>>
  /\ idx = 0
  /\ frames = <<>>
  /\ frame = NilFrame
  /\ err = ""
  /\ ran = <<>>
  /\ last = NoCall

Begin(f, text, o, answer, at) ==
  /\ pc' = at
  /\ fn' = f
  /\ jsonString' = text
  /\ options' = o
  /\ sqlite3' = answer
  /\ rootString' = <<>>
  /\ outString' = <<>>
  /\ idx' = 0
  /\ frames' = <<>>
  /\ frame' = NilFrame
  /\ err' = ""
  /\ ran' = <<>>

CallToFrames ==
  /\ pc = "idle"
  /\ \E text \in Texts, o \in FramerOptions : Begin("ToFrames", text, o, NoAnswer, "validate")
  /\ UNCHANGED last

CallToFrame ==
  /\ pc = "idle"
  /\ \E text \in Texts, o \in FramerOptions :
       \E answer \in (IF o.FramerType = FramerTypeSQLite3 THEN SQLite3Answers ELSE {NoAnswer}) :
         Begin("ToFrame", text, o, answer, "validate")
  /\ UNCHANGED last

CallGetRootData ==
  /\ pc = "idle"
  /\ \E text \in Texts, sel \in RootSelectors :
       Begin("GetRootData", text, [NoOptions EXCEPT !.RootSelector = sel], NoAnswer, "root")
  /\ UNCHANGED last

Finish(e) == /\ pc' = "done" /\ err' = e

\* validateJson, and the switch on the framer type.
Validate ==
  /\ pc = "validate"
  /\ ran' = Append(ran, "validate")
  /\ \E e \in {validateJson(jsonString)} :
       IF e # "" THEN Finish(e)
       ELSE IF options.FramerType = FramerTypeSQLite3 THEN
         IF fn = "ToFrames" THEN Finish(ErrMultiFrameSQLite3)
         ELSE pc' = "sqlite3" /\ err' = err
       ELSE pc' = "root" /\ err' = err
  /\ UNCHANGED <<last, fn, jsonString, options, sqlite3, rootString, outString, idx, frames, frame>>

\* ToFrame with the sqlite3 framer: the query, then the frame of its rows.
QuerySQLite3 ==
  /\ pc = "sqlite3"
  /\ ran' = Append(ran, "sqlite3")
  /\ IF sqlite3.err # "" THEN Finish(sqlite3.err) /\ UNCHANGED <<outString, frame>>
     ELSE \E r \in {getFrameFromResponseString(sqlite3.out, options)} :
            Finish(r.err) /\ outString' = sqlite3.out /\ frame' = r.frame
  /\ UNCHANGED <<last, fn, jsonString, options, sqlite3, rootString, idx, frames>>

\* GetRootData, called by ToFrame and ToFrames or by itself.
ResolveRoot ==
  /\ pc = "root"
  /\ ran' = Append(ran, "root")
  /\ \E r \in {GetRootData(jsonString, options.RootSelector)} :
       IF r.panic THEN pc' = "panicked" /\ UNCHANGED <<rootString, err>>
       ELSE IF r.err # "" \/ fn = "GetRootData" THEN Finish(r.err) /\ rootString' = r.out
       ELSE pc' = "project" /\ rootString' = r.out /\ err' = err
  /\ UNCHANGED <<last, fn, jsonString, options, sqlite3, outString, idx, frames, frame>>

\* getColumnValuesFromResponseString
Project ==
  /\ pc = "project"
  /\ ran' = Append(ran, "project")
  /\ \E r \in {getColumnValuesFromResponseString(rootString, options.Columns)} :
       IF r.err # "" THEN Finish(r.err) /\ UNCHANGED outString
       ELSE pc' = "build" /\ outString' = r.out /\ err' = err
  /\ UNCHANGED <<last, fn, jsonString, options, sqlite3, rootString, idx, frames, frame>>

\* nonArrayItemsFound that an array element sets back to false: it tells
\* whether the last element is no array.
nonArrayItemsFoundLast(text) ==
  /\ Len(gjsonArray(text)) > 0
  /\ gjsonArray(text)[Len(gjsonArray(text))].type # "arr"

nonArrayItemsFound(text) ==
  \E item \in {gjsonArray(text)[i] : i \in 1..Len(gjsonArray(text))} : item.type # "arr"

\* WideFrame that does not look at the format: every long frame is made wide.
WideFrameAnyFormat(text, opts) ==
  The({ IF r.err = "" /\ ~r.frame.isNil /\ TimeSeriesSchemaType(r.frame) = "long"
        THEN LongToWide(r.frame)
        ELSE r
        : r \in {getFrameFromResponseString(text, opts)} })

\* The frame of one row-set, made wide when the format asks for it and the
\* frame is long.
WideFrame(text, opts) ==
  The({ IF r.err = "" /\ ~r.frame.isNil /\ opts.FrameFormat = "timeseries"
           /\ TimeSeriesSchemaType(r.frame) = "long"
        THEN LongToWide(r.frame)
        ELSE r
        : r \in {getFrameFromResponseString(text, opts)} })

\* ToFrame: the frame of the projected text.
BuildFrame ==
  /\ pc = "build"
  /\ fn = "ToFrame"
  /\ ran' = Append(ran, "build")
  /\ \E r \in {getFrameFromResponseString(outString, options)} :
       Finish(r.err) /\ frame' = r.frame
  /\ UNCHANGED <<last, fn, jsonString, options, sqlite3, rootString, outString, idx, frames>>

\* ToFrames: the projected text is one row-set (an array with an element
\* that is no array, or no array at all) or an array of row-sets, which is
\* left to the loop.
BuildFrames ==
  /\ pc = "build"
  /\ fn = "ToFrames"
  /\ ran' = Append(ran, "build")
  /\ IF gjsonIsArray(outString) THEN
       IF nonArrayItemsFound(outString) THEN
         \E r \in {getFrameFromResponseString(outString, options)} :
           /\ Finish(r.err)
           /\ frames' = IF r.err # "" THEN frames ELSE Append(frames, r.frame)
           /\ idx' = idx
       ELSE pc' = "loop" /\ idx' = 1 /\ UNCHANGED <<frames, err>>
     ELSE
       \E r \in {WideFrame(outString, options)} :
         /\ Finish(r.err)
         /\ frames' = IF r.err # "" \/ r.frame.isNil THEN frames ELSE Append(frames, r.frame)
         /\ idx' = idx
  /\ UNCHANGED <<last, fn, jsonString, options, sqlite3, rootString, outString, frame>>

\* ToFrames, one turn of the loop over the inner arrays.
\* The loop putting each frame in front of the ones it has.
BuildInnerPrepend ==
  /\ pc = "loop"
  /\ idx <= Len(gjsonArray(outString))
  /\ ran' = Append(ran, "inner")
  /\ \E r \in {WideFrame(Render(gjsonArray(outString)[idx]), options)} :
       IF r.err # "" THEN Finish(r.err) /\ UNCHANGED <<idx, frames>>
       ELSE /\ frames' = IF r.frame.isNil THEN frames ELSE <<r.frame>> \o frames
            /\ idx' = idx + 1
            /\ UNCHANGED <<pc, err>>
  /\ UNCHANGED <<last, fn, jsonString, options, sqlite3, rootString, outString, frame>>

BuildInner ==
  /\ pc = "loop"
  /\ idx <= Len(gjsonArray(outString))
  /\ ran' = Append(ran, "inner")
  /\ \E r \in {WideFrame(Render(gjsonArray(outString)[idx]), options)} :
       IF r.err # "" THEN Finish(r.err) /\ UNCHANGED <<idx, frames>>
       ELSE /\ frames' = IF r.frame.isNil THEN frames ELSE Append(frames, r.frame)
            /\ idx' = idx + 1
            /\ UNCHANGED <<pc, err>>
  /\ UNCHANGED <<last, fn, jsonString, options, sqlite3, rootString, outString, frame>>

\* ToFrames, the return after the loop.
EndLoop ==
  /\ pc = "loop"
  /\ idx > Len(gjsonArray(outString))
  /\ Finish(err)
  /\ UNCHANGED <<last, fn, jsonString, options, sqlite3, rootString, outString, idx, frames, frame, ran>>

\* The caller takes the results; nothing of the call is kept for the next.
Return ==
  /\ pc = "done"
  /\ pc' = "idle"
  /\ fn' = ""
  /\ jsonString' = <<>>
  /\ options' = NoOptions
  /\ sqlite3' = NoAnswer
  /\ rootString' = <<>>
  /\ outString' = <<>>
  /\ idx' = 0
  /\ frames' = <<>>
  /\ frame' = NilFrame
  /\ err' = ""
  /\ ran' = <<>>
  /\ UNCHANGED last

Next ==
  \/ CallToFrames
  \/ CallToFrame
  \/ CallGetRootData
  \/ Validate
  \/ QuerySQLite3
  \/ ResolveRoot
  \/ Project
  \/ BuildFrame
  \/ BuildFrames
  \/ BuildInner
  \/ EndLoop
  \/ Return

Spec == Init /\ [][Next]_vars

(***************************************************************************)
(* A caller that hands one text and one configuration to ToFrame and then  *)
(* to ToFrames, keeping what ToFrame returned.                             *)
(***************************************************************************)
CallToFrameFirst ==
  /\ pc = "idle"
  /\ ~last.called
  /\ \E text \in Texts, o \in {x \in FramerOptions : x.FramerType = FramerTypeGJSON} :
       Begin("ToFrame", text, o, NoAnswer, "validate")
  /\ UNCHANGED last

Idle ==
  /\ pc' = "idle"
  /\ fn' = ""
  /\ jsonString' = <<>>
  /\ options' = NoOptions
  /\ sqlite3' = NoAnswer
  /\ rootString' = <<>>
  /\ outString' = <<>>
  /\ idx' = 0
  /\ frames' = <<>>
  /\ frame' = NilFrame
  /\ err' = ""
  /\ ran' = <<>>

ReturnFromToFrame ==
  /\ pc = "done"
  /\ fn = "ToFrame"
  /\ last' = [called |-> TRUE, jsonString |-> jsonString, options |-> options,
              frame |-> frame, err |-> err]
  /\ Idle

CallToFramesSecond ==
  /\ pc = "idle"
  /\ last.called
  /\ Begin("ToFrames", last.jsonString, last.options, NoAnswer, "validate")
  /\ UNCHANGED last

ReturnFromToFrames ==
  /\ pc = "done"
  /\ fn = "ToFrames"
  /\ last' = NoCall
  /\ Idle

NextBoth ==
  \/ CallToFrameFirst
  \/ CallToFramesSecond
  \/ Validate
  \/ ResolveRoot
  \/ Project
  \/ BuildFrame
  \/ BuildFrames
  \/ BuildInner
  \/ EndLoop
  \/ ReturnFromToFrame
  \/ ReturnFromToFrames

SpecBoth == Init /\ [][NextBoth]_vars

(***************************************************************************)
(* What the claims speak of.                                               *)
(***************************************************************************)
Returned(f) == pc = "done" /\ fn = f

Succeeded(f) == Returned(f) /\ err = ""

Ran(stage) == \E i \in 1..Len(ran) : ran[i] = stage

AllWhiteSpace(text) == \A i \in 1..Len(text) : text[i].t = "ws"

\* The resolved root and the projected text, as values.
Root == ParseText(rootString)

Projected == ParseText(outString)

IsArrayOfArrays(r) ==
  r.ok /\ r.v.type = "arr" /\ \A i \in 1..Len(r.v.items) : r.v.items[i].type = "arr"

HasNonArrayElement(r) ==
  r.ok /\ r.v.type = "arr" /\ \E i \in 1..Len(r.v.items) : r.v.items[i].type # "arr"

HasArrayElement(r) ==
  r.ok /\ r.v.type = "arr" /\ \E i \in 1..Len(r.v.items) : r.v.items[i].type = "arr"

IsNoArray(r) == r.ok /\ r.v.type # "arr"

\* C1: ToFrame and ToFrames, whatever the options: a text that is empty or all
\* white space returns "empty json received", any other text that is no JSON
\* returns "invalid json response received"; no frame comes back and no stage
\* after the validation has run.
C1_Validation ==
  (pc = "done" /\ fn \in {"ToFrame", "ToFrames"}) =>
    /\ AllWhiteSpace(jsonString) =>
         err = ErrEmptyJson /\ frames = <<>> /\ frame.isNil /\ ran = <<"validate">>
    /\ (~AllWhiteSpace(jsonString) /\ ~ParseText(jsonString).ok) =>
         err = ErrInvalidJson /\ frames = <<>> /\ frame.isNil /\ ran = <<"validate">>
    /\ err \in {ErrEmptyJson, ErrInvalidJson} => ~ParseText(jsonString).ok

C1_Witness ==
  /\ Returned("ToFrame")
  /\ options.FramerType = FramerTypeSQLite3
  /\ jsonString = <<Tok("{")>>
  /\ err = ErrInvalidJson

C3_OneFrameForMixedArray ==
  (fn = "ToFrames" /\ HasNonArrayElement(Root)) =>
    /\ pc # "loop"
    /\ ~Ran("inner")
    /\ Succeeded("ToFrames") => Len(frames) = 1

C3_Witness ==
  /\ Succeeded("ToFrames")
  /\ HasNonArrayElement(Root)
  /\ HasArrayElement(Root)
  /\ Len(frames) = 1

\* C4, as claimed: ToFrames, the resolved root an object or a scalar: a
\* successful call returns exactly one frame, whatever Columns is.
C4_Claimed ==
  (Succeeded("ToFrames") /\ IsNoArray(Root)) => Len(frames) = 1

\* C5, as claimed: ToFrames never returns frames together with an error.
C5_Claimed ==
  (Returned("ToFrames") /\ err # "") => frames = <<>>

\* C6, as claimed: no call panics, and a root selector that neither resolves
\* as a path nor compiles returns ErrInvalidRootSelector.
C6_Claimed ==
  /\ pc # "panicked"
  /\ (pc = "done" /\ Ran("root") /\ options.RootSelector # ""
      /\ ~gjsonGet(jsonString, options.RootSelector).exists
      /\ ~jsonataCompiles(options.RootSelector)) => err = ErrInvalidRootSelector

\* C7, as claimed: GetRootData returns the text unchanged for the empty
\* selector, and for a selector that resolves as a path, the JSON text of
\* the value it resolves to.
C7_Claimed ==
  Returned("GetRootData") =>
    /\ options.RootSelector = "" => (err = "" /\ rootString = jsonString)
    /\ (options.RootSelector # "" /\ ParseText(jsonString).ok
        /\ GetPath(ParseText(jsonString).v, Segments(options.RootSelector), 1).exists) =>
         /\ err = ""
         /\ Root.ok
         /\ Root.v = GetPath(ParseText(jsonString).v, Segments(options.RootSelector), 1).v

\* The texts of the row-sets ToFrames makes frames of.
RowSetTexts ==
  IF IsArrayOfArrays(Projected)
  THEN [i \in 1..Len(Projected.v.items) |-> Render(Projected.v.items[i])]
  ELSE <<outString>>

\* C8, as claimed: with the time series format no frame of a successful
\* ToFrames is long; with the table format every frame is the assembled frame
\* of its row-set.
C8_Claimed ==
  Succeeded("ToFrames") =>
    /\ options.FrameFormat = FrameFormatTimeSeries =>
         \A i \in 1..Len(frames) : TimeSeriesSchemaType(frames[i]) # "long"
    /\ options.FrameFormat = FrameFormatTable =>
         \A i \in 1..Len(frames) :
           frames[i] = getFrameFromResponseString(RowSetTexts[i], options).frame

\* The names of the declared columns, in the order they are declared.
DeclaredNames == FirstSeen([i \in 1..Len(options.Columns) |-> ColumnName(options.Columns[i])])

\* The last column that is stored under a name.
LastColumn(name) ==
  options.Columns[CHOOSE i \in 1..Len(options.Columns) :
                    /\ ColumnName(options.Columns[i]) = name
                    /\ \A j \in (i + 1)..Len(options.Columns) :
                         ColumnName(options.Columns[j]) # name]

\* What a column selects in a source row: the value at its path, null when
\* there is none.
Selected(row, col) ==
  LET r == GetPath(row, Segments(col.Selector), 1) IN IF r.exists THEN ToGo(r.v) ELSE JNull

SourceRows == IF Root.v.type = "arr" THEN Root.v.items ELSE <<Root.v>>

\* C9: the projection with Columns not empty never fails; an object root
\* gives one row and an array root one row per element; every row has
\* exactly the declared output names as its keys, each once; a cell holds
\* what the last column of that name selects, null when the path is absent.
C9_Projection ==
  (Ran("project") /\ Len(options.Columns) > 0) =>
    /\ ran[Len(ran)] = "project" => (pc = "build" /\ err = "")
    /\ (Root.ok /\ Root.v.type \in {"arr", "obj"}) =>
         /\ Projected.ok /\ Projected.v.type = "arr"
         /\ Len(Projected.v.items) = Len(SourceRows)
         /\ \A i \in 1..Len(SourceRows) :
              LET row == Projected.v.items[i] IN
              /\ row.type = "obj"
              /\ {row.keys[k] : k \in 1..Len(row.keys)}
                   = {DeclaredNames[k] : k \in 1..Len(DeclaredNames)}
              /\ Len(row.keys) = Len(DeclaredNames)
              /\ \A k \in 1..Len(row.keys) :
                   row.items[k] = Selected(SourceRows[i], LastColumn(row.keys[k]))

C9_Witness ==
  /\ pc = "build"
  /\ options.Columns = <<Col("a", "x", ""), Col("b", "x", "")>>
  /\ rootString = Render(JArr(<<RowA, JNum(1)>>))
  /\ outString = Render(JArr(<<JObj(<<"x">>, <<JNum(1)>>), JObj(<<"x">>, <<JNull>>)>>))

\* The keys of the source rows in the order they are first seen.
SourceKeys == FirstSeen(Flatten([i \in 1..Len(SourceRows) |-> RowKeys(SourceRows[i], options.FrameName)]))

FieldNames(f) == [i \in 1..Len(f.fields) |-> f.fields[i].name]

\* C10, as claimed: the projected rows list their columns in the declared
\* order (Columns not empty) or as the source text has them (Columns empty),
\* and the columns of the frame ToFrame returns are in the declared order, or
\* in the order the keys are first seen in the source rows.
C10_Claimed ==
  (Ran("project") /\ Root.ok /\ Root.v.type \in {"arr", "obj"}) =>
    /\ Len(options.Columns) > 0 =>
         \A i \in 1..Len(Projected.v.items) : Projected.v.items[i].keys = DeclaredNames
    /\ Len(options.Columns) = 0 => outString = rootString
    /\ Succeeded("ToFrame") =>
         FieldNames(frame) = IF Len(options.Columns) > 0 THEN DeclaredNames ELSE SourceKeys

\* C11, as claimed: a successful ToFrames returns at least one frame, and the
\* texts {} and [] under the default options succeed through ToFrame and
\* through ToFrames with a frame of no rows.
C11_Claimed ==
  /\ Succeeded("ToFrames") => Len(frames) >= 1
  /\ (pc = "done" /\ fn \in {"ToFrame", "ToFrames"}
      /\ jsonString \in {Render(JObj(<<>>, <<>>)), Render(JArr(<<>>))}
      /\ options.FramerType = FramerTypeGJSON /\ options.RootSelector = ""
      /\ options.Columns = <<>> /\ options.OverrideColumns = <<>>) =>
       /\ err = ""
       /\ fn = "ToFrame" => (~frame.isNil /\ RowLen(frame) = 0)
       /\ fn = "ToFrames" => (Len(frames) = 1 /\ RowLen(frames[1]) = 0)

\* The projected text is one row-set: a value that is no array, or an array
\* with an element that is no array.
OneRowSet == Ran("project") /\ (IsNoArray(Projected) \/ HasNonArrayElement(Projected))

\* C13: the gjson framer and the table format, ToFrames called with the text
\* and the options ToFrame was called with, the projected text one row-set:
\* ToFrames returns the error ToFrame returned, and when that is nil its
\* frames are the one frame ToFrame returned.
C13_Agree ==
  (Returned("ToFrames") /\ last.called /\ OneRowSet
   /\ options.FramerType = FramerTypeGJSON /\ options.FrameFormat = FrameFormatTable) =>
    /\ jsonString = last.jsonString /\ options = last.options
    /\ err = last.err
    /\ err = "" => frames = <<last.frame>>

C13_Witness ==
  /\ Succeeded("ToFrames")
  /\ last.called
  /\ options.FrameFormat = FrameFormatTable
  /\ Len(options.Columns) > 0
  /\ HasNonArrayElement(Projected)
  /\ frames = <<last.frame>>
  /\ RowLen(last.frame) = 2
====
